---- MODULE Spec2Model ----
(***************************************************************************)
(* Model of the pier ethereum client: the transaction submitter            *)
(* (SubmitIBTP, SubmitReceipt, SubmitIBTPBatch and the four invoke          *)
(* methods), the confirmation waiter (waitForConfirmed) and the header      *)
(* synchronisation pool (listenHeader, postHeaders).                        *)
(***************************************************************************)
EXTENDS Integers, Sequences, FiniteSets, TLC

(***************************************************************************)
(* Bounds of the model.                                                     *)
(***************************************************************************)
\* uint64 arithmetic is modelled modulo 2^WordBits; every height and every
\* MinConfirm of the model stays far below 2^WordBits, so a wrapped
\* difference is, as with 64 bits, larger than any depth the model compares
\* it with.
WordBits == 5
\* the highest best-block height the ledger reports
MaxHeight == 2
\* the number of transactions the ledger accepts in one run
MaxTx == 2
\* failed attempts are counted up to MaxAttempts (the count saturates; the
\* retry loop itself has no cap)
MaxAttempts == 2
\* the largest group size and the largest number of trailing arguments of a
\* multi-type message
MaxNum == 3
MaxTrail == 4
\* the largest number of result entries / multi-status entries of a receipt
MaxResults == 2

\* the header pool: the highest height the ledger reaches, and the capacities
\* the model gives the header-receive channel (defaultCap in the source) and
\* the outbound metadata channel
MaxLatest == 4
RecvCap == 2
MetaCap == 1
\* the capacity the model gives the off-chain request channel (1024 in the
\* source)
ReqCap == 2
\* the longest functions field and the longest arguments field of an event,
\* in characters, and the highest event index
MaxFuncs == 5
MaxArgs == 1
MaxIndex == 2
\* the largest shard size of a response, and the last instant of the clock
\* (in clock steps, TicksPerSecond of them to the second)
MaxShards == 2
MaxNow == 2
\* the number of calls of SubmitOffChainData in one run
MaxCalls == 2

Callers == {"c1", "c2"}
NoCaller == "none"

Modulus == 2 ^ WordBits

(***************************************************************************)
(* Configuration and protocol constants.                                    *)
(***************************************************************************)
\* c.config.Ether.MinConfirm, the configured finality depth
MinConfirm == 1

\* pb.IBTP_Multi, the type tag of a message carrying several transactions,
\* and a tag of a message carrying one
IBTP_Multi == 5
IBTP_INTERCHAIN == 0

\* Threshold, the number of blocks a header must lie below the latest height
\* before listenHeader fetches it
Threshold == 2

\* pb.TransactionStatus
TxStatuses == {"BEGIN", "SUCCESS", "FAILURE", "ROLLBACK"}

\* types.ReceiptStatusSuccessful / types.ReceiptStatusFailed
ReceiptStatusSuccessful == 1
ReceiptStatusFailed == 0

SubmitIBTPErr == "SubmitIBTP tx execution failed"
SubmitReceiptErr == "SubmitReceipt tx execution failed"
FormatErr == "format error for IBTP carrying multiple transactions"
RevertErr == "execution reverted"
TransientErr == "connection refused"
ChainIDErr == "call GetChainID failed"
OutMessageErr == "call GetOutMessage failed"
OffChainFlagErr == "check offChain flag"
NoErr == ""

\* c.config.Ether.OffChainAddr, the off-chain marker address, and the
\* destinations of the model: two spellings of the marker and another address
\* the clock of the model advances in steps of half a second
TicksPerSecond == 2

\* pb.GetDataResponse_DATA_GET_SUCCESS and another outcome tag, as
\* response.Type.String() writes them
DATA_GET_SUCCESS == "DATA_GET_SUCCESS"
DATA_GET_FAIL == "DATA_GET_FAIL"
OpenErr == "open: permission denied"
ReadErr == "open: no such file or directory"
WriteErr == "write: no space left on device"

\* the operating modes Initialize knows
relayMode == "relay"
directMode == "direct"

OffChainAddr == "0xAb12"
OtherAddr == "0xCD34"
ServiceIDs == {"0xAB12", "0xab12", OtherAddr}

(***************************************************************************)
(* Pure helpers.                                                            *)
(***************************************************************************)
\* a - b on unsigned integers of WordBits bits
SubU64(a, b) == (a - b + Modulus) % Modulus

\* binary.BigEndian.Uint64: the first eight bytes, most significant first
RECURSIVE BigEndianFold(_, _, _)
BigEndianFold(b, i, acc) ==
    IF i > 8 THEN acc ELSE BigEndianFold(b, i + 1, acc * 256 + b[i])

BigEndianUint64(b) == BigEndianFold(b, 1, 0)

\* the eight-byte big-endian encoding of a small number (how the relay hub
\* writes a type tag or a group size)
PutUint64(n) == <<0, 0, 0, 0, 0, 0, n \div 256, n % 256>>

\* the loop of SubmitIBTP over content.Args: from index i (counted from 0, as
\* in the source) it takes the slice Args[i:i+num] and moves on by num
RECURSIVE GroupArgs(_, _, _)
GroupArgs(args, i, num) ==
    IF i < Len(args)
    THEN <<SubSeq(args, i + 1, i + num)>> \o GroupArgs(args, i + num, num)
    ELSE <<>>

\* a variant of MultiArgs whose loop starts one argument early
MultiArgsFromOne(args, num) == GroupArgs(args, 1, num)

\* the argument groups SubmitIBTP hands to InvokeMultiInterchain
MultiArgs(args, num) == GroupArgs(args, 2, num)

\* a variant of SingleArgs that keeps the type tag
SingleArgsKeepTag(args) == args

\* the arguments SubmitIBTP hands to invokeInterchain: content.Args[1:]
SingleArgs(args) == SubSeq(args, 2, Len(args))

\* what the decoding at the head of SubmitIBTP comes to: a run-time panic
\* (index out of range, a slice shorter than eight bytes, integer division by
\* zero), the format error, the multi path or the single path
IBTPRoute(args) ==
    IF Len(args) = 0 \/ Len(args[1]) < 8 THEN "panic"
    ELSE IF BigEndianUint64(args[1]) = IBTP_Multi
    THEN IF Len(args) < 2 \/ Len(args[2]) < 8 THEN "panic"
         ELSE LET lenArgs == Len(args) - 2
                  num == BigEndianUint64(args[2])
              IN  IF num = 0 THEN "panic"
                  ELSE IF lenArgs % num # 0 THEN "format"
                  ELSE "multi"
    ELSE "single"

\* a variant of UseMultiReceipt that takes one status entry for several
UseMultiReceiptFromOne(result, txStatus) ==
    \/ Len(result.MultiStatus) >= 1
    \/ (Len(result.MultiStatus) = 0 /\ txStatus # "BEGIN")

\* the routing condition of SubmitReceipt
UseMultiReceipt(result, txStatus) ==
    \/ Len(result.MultiStatus) > 1
    \/ (Len(result.MultiStatus) = 0 /\ txStatus # "BEGIN")

\* results = the Data of every entry of result.Data, in order
ReceiptResults(result) == [i \in 1..Len(result.Data) |-> result.Data[i]]

(***************************************************************************)
(* State.                                                                   *)
(***************************************************************************)
VARIABLES
    lock,       \* c.lock: the caller holding it, or NoCaller
    pc,         \* where each caller is in its submit call
    op,         \* the submit method each caller is in
    input,      \* the arguments the submit method was called with
    method,     \* the ledger method the submission goes through
    fwd,        \* the arguments handed to the invoke method and the ledger call
    calls,      \* ledger calls issued by this submission (saturating)
    tx,         \* the transaction the ledger call returned (0: nil)
    txErr,      \* the error of the last ledger call
    start,      \* waitForConfirmed: the height recorded at its start
    seen,       \* waitForConfirmed: the height the depth check last read
    waited,     \* waitForConfirmed: the hash it was called with (0: not called)
    receipt,    \* the receipt waitForConfirmed returned
    ret,        \* the response the submit method returns
    err,        \* the error the submit method returns
    height,     \* the ledger: its best-block height
    nextTx,     \* the ledger: the hash of the next accepted transaction
    pushed,     \* requests this call has pushed on c.reqCh
    used,       \* the session variant this call last called a method of
    reqCh       \* c.reqCh: the off-chain requests in the channel, oldest first

VARIABLES
    session,       \* c.session is set (not nil)
    sessionDirect  \* c.sessionDirect is set (not nil)

VARIABLES
    now,           \* the clock time.Now() reads
    files,         \* the files of c.config.Ether.OffChainPath, by name
    ncalls,        \* the calls of SubmitOffChainData made so far
    dpc,           \* where each caller is in SubmitOffChainData
    resp,          \* SubmitOffChainData: the response it was called with
    dname,         \* SubmitOffChainData: the name of the output file it opened
    di,            \* SubmitOffChainData: the loop variable i
    ddata,         \* SubmitOffChainData: the bytes read from shard i
    derr,          \* SubmitOffChainData: the error it returns
    dreads         \* SubmitOffChainData: the shards it has opened, in order

VARIABLES
    sent,          \* every header listenHeader has pushed, in the order pushed
    posted         \* the headers of every batch postHeaders has emitted, in order

VARIABLES
    event,         \* the event Convert2IBTP was last called with
    ibtp,          \* the message Convert2IBTP last returned
    exited         \* the process has ended in os.Exit

VARIABLES
    cancelled,    \* c.ctx is cancelled
    currentNum,   \* headerPool.currentNum
    recvHeaderCh, \* headerPool.recvHeaderCh: the headers in the channel, oldest first
    headersSet,   \* headerPool.headersSet
    metaC,        \* c.metaC: the header batches in the channel, oldest first
    lpc,          \* where listenHeader is
    latestHeight, \* listenHeader: the latest height its tick read
    loopI,        \* listenHeader: the loop variable i
    header,       \* listenHeader: the header it fetched and is about to push
    ppc,          \* where postHeaders is
    batch,        \* postHeaders: the batch it is about to emit
    emptyTicks    \* postHeaders: a tick has found the buffer empty

callerVars == <<pc, op, input, method, fwd, calls, tx, txErr, start, seen,
                waited, receipt, ret, err, pushed, used>>
ledgerVars == <<height, nextTx>>
submitVars == <<lock, callerVars, ledgerVars, reqCh>>
headerVars == <<cancelled, currentNum, recvHeaderCh, headersSet, metaC, lpc,
                latestHeight, loopI, header, ppc, batch, emptyTicks>>
sessionVars == <<session, sessionDirect>>
eventVars == <<event, ibtp, exited>>
dataVars == <<now, files, ncalls, dpc, resp, dname, di, ddata, derr, dreads>>
poolHistory == <<sent, posted>>
otherVars == <<sessionVars, eventVars, dataVars>>
restVars == <<otherVars, poolHistory>>
vars == <<submitVars, headerVars, restVars>>

NoReceipt == [TxHash |-> 0, Status |-> -1]
NoRet == [Status |-> FALSE, Message |-> "unset"]
NoResult == [Data |-> <<>>, MultiStatus |-> <<>>]
NoInput == [args |-> <<>>, result |-> NoResult, txStatus |-> "BEGIN", batch |-> <<>>,
            dst |-> "", need |-> FALSE]

InitSubmit ==
    /\ lock = NoCaller
    /\ pc = [p \in Callers |-> "idle"]
    /\ op = [p \in Callers |-> "none"]
    /\ input = [p \in Callers |-> NoInput]
    /\ method = [p \in Callers |-> "none"]
    /\ fwd = [p \in Callers |-> <<>>]
    /\ calls = [p \in Callers |-> 0]
    /\ tx = [p \in Callers |-> 0]
    /\ txErr = [p \in Callers |-> NoErr]
    /\ start = [p \in Callers |-> 0]
    /\ seen = [p \in Callers |-> 0]
    /\ waited = [p \in Callers |-> 0]
    /\ receipt = [p \in Callers |-> NoReceipt]
    /\ ret = [p \in Callers |-> NoRet]
    /\ err = [p \in Callers |-> NoErr]
    /\ height \in 0..MaxHeight
    /\ nextTx = 1
    /\ pushed = [p \in Callers |-> 0]
    /\ used = [p \in Callers |-> "none"]
    /\ reqCh = <<>>

NoEvent == [Funcs |-> <<>>, Args |-> <<>>, Index |-> 0]
NoIBTP == [Index |-> 0, Payload |-> <<>>]

\* no event has been converted
InitEvent ==
    /\ event = NoEvent
    /\ ibtp = NoIBTP
    /\ exited = FALSE

\* the file name of a message identifier and a time: the identifier, "-",
\* and the time as time.Format writes it with the layout
\* "2006.01.02-15:04:05", which keeps whole seconds
Format(t) == t \div TicksPerSecond
FileName(msg, t) == <<msg, Format(t)>>
NoName == <<"none", 0>>

Msgs == {"m"}
FileNames == {FileName(m, t) : m \in Msgs, t \in 0..MaxNow}
NoFile == [exists |-> FALSE, bytes |-> <<>>]
NoResp == [Type |-> "none", Msg |-> "", Transfer |-> 0, ShardSize |-> 0]

\* an empty output directory, and nobody in SubmitOffChainData
InitData ==
    /\ now = 0
    /\ files = [n \in FileNames |-> NoFile]
    /\ ncalls = 0
    /\ dpc = [p \in Callers |-> "idle"]
    /\ resp = [p \in Callers |-> NoResp]
    /\ dname = [p \in Callers |-> NoName]
    /\ di = [p \in Callers |-> 0]
    /\ ddata = [p \in Callers |-> <<>>]
    /\ derr = [p \in Callers |-> NoErr]
    /\ dreads = [p \in Callers |-> <<>>]

\* the parts of the client outside the submit methods, the header pool and
\* the sessions
InitRest ==
    /\ InitEvent /\ InitData
    /\ sent = <<>>
    /\ posted = <<>>

\* Initialize(configPath, mode), for a mode out of modes: if mode == relayMode
\* c.session is set, else c.sessionDirect
InitSession(modes) ==
    \E mode \in modes :
        /\ session = (mode = relayMode)
        /\ sessionDirect = (mode # relayMode)

\* newHeaderPool(currentNum), for a start number out of nums
InitHeaderPool(nums) ==
    /\ cancelled = FALSE
    /\ currentNum \in nums
    /\ recvHeaderCh = <<>>
    /\ headersSet = <<>>
    /\ metaC = <<>>
    /\ lpc = "select"
    /\ latestHeight = 0
    /\ loopI = 0
    /\ header = 0
    /\ ppc = "select"
    /\ batch = <<>>
    /\ emptyTicks = FALSE

\* a run-time panic in any goroutine ends the process
Crashed == \E p \in Callers : pc[p] = "panicked"

(***************************************************************************)
(* The ledger session, seen from the client.                                *)
(***************************************************************************)
\* the errors a ledger call answers with: contract rejections, whose text
\* contains "execution reverted", and transport errors
RevertErrs == {RevertErr, "execution reverted: dst service not registered"}
TransientErrs == {TransientErr}

\* strings.Contains(txErr.Error(), "execution reverted")
IsRevert(e) == e \in RevertErrs

\* a variant of ClosureResult without the check for a revert
ClosureResultNoRevertCheck(e) == e

\* the value the retried closure returns after a ledger call that answered
\* with error e: nil (NoErr) ends the retry loop
ClosureResult(e) == IF e # NoErr /\ IsRevert(e) THEN NoErr ELSE e

\* a variant of WaitStrategy that gives up after MaxAttempts attempts, as
\* strategy.Limit would
LimitStrategy(attempt) == attempt < MaxAttempts

\* strategy.Wait(2*time.Second): sleeps, and always allows the next attempt
WaitStrategy(attempt) == TRUE

\* retry.Retry: another attempt is made while the closure returned an error
\* and the strategy allows it
RetryAgain(e, attempt) == ClosureResult(e) # NoErr /\ WaitStrategy(attempt)

\* the methods that take c.lock; SubmitIBTPBatch calls the session directly
TakesLock(m) == m \in {"InvokeInterchain", "InvokeMultiInterchain",
                       "InvokeReceipt", "InvokeMultiReceipt"}

\* the message a submit method reports for a receipt that is not successful
FailedMessage(o) == IF o = "SubmitReceipt" THEN SubmitReceiptErr ELSE SubmitIBTPErr

\* a variant of ResponseOf that does not look at the receipt's status
ResponseIgnoringStatus(o, rcpt) == [Status |-> TRUE, Message |-> ""]

\* the response a submit method builds from the receipt of its transaction
ResponseOf(o, rcpt) ==
    IF rcpt.Status # ReceiptStatusSuccessful
    THEN [Status |-> FALSE, Message |-> FailedMessage(o)]
    ELSE [Status |-> TRUE, Message |-> ""]

\* c.ethClient.TransactionReceipt(c.ctx, hash): the receipt of the transaction
\* with that hash, whose status the ledger decided
TransactionReceipt(hash, status) == [TxHash |-> hash, Status |-> status]

(***************************************************************************)
(* The submit methods, up to the retry loop.                                *)
(***************************************************************************)
Enter(p, o, in, m, a, next) ==
    /\ op' = [op EXCEPT ![p] = o]
    /\ input' = [input EXCEPT ![p] = in]
    /\ method' = [method EXCEPT ![p] = m]
    /\ fwd' = [fwd EXCEPT ![p] = a]
    /\ pc' = [pc EXCEPT ![p] = next]

\* strings.ToLower, on the addresses of the model
ToLower(s) ==
    CASE s = "0xAB12" -> "0xab12"
      [] s = "0xAb12" -> "0xab12"
      [] s = "0xCD34" -> "0xcd34"
      [] OTHER -> s

\* a variant of EqualFold that compares the spellings
EqualExact(a, b) == a = b

\* strings.EqualFold: equality under case folding
EqualFold(a, b) == ToLower(a) = ToLower(b)

\* the head of SubmitIBTP and of SubmitReceipt: the destination is the
\* off-chain marker address
IsOffChainDst(dst) == EqualFold(dst, OffChainAddr)

\* constructReq(index, key, from, arg): the request, by its reference argument
constructReq(p, arg) == [From |-> p, Req |-> arg]

\* the rest of SubmitIBTP, from ret := &pb.SubmitIBTPResponse{Status: true}
\* on: the decoding of content.Args and the choice of the invoke method
DecodeIBTP(p, in) ==
    LET args == in.args
        route == IBTPRoute(args)
    IN  \/ /\ route = "panic"
           /\ Enter(p, "SubmitIBTP", in, "none", <<>>, "panicked")
           /\ UNCHANGED <<ret, err>>
        \/ /\ route = "format"
           /\ Enter(p, "SubmitIBTP", in, "none", <<>>, "done")
           /\ ret' = [ret EXCEPT ![p] = [Status |-> TRUE, Message |-> ""]]
           /\ err' = [err EXCEPT ![p] = FormatErr]
        \/ /\ route = "multi"
           /\ Enter(p, "SubmitIBTP", in, "InvokeMultiInterchain",
                    MultiArgs(args, BigEndianUint64(args[2])), "lock")
           /\ ret' = [ret EXCEPT ![p] = [Status |-> TRUE, Message |-> ""]]
           /\ UNCHANGED err
        \/ /\ route = "single"
           /\ Enter(p, "SubmitIBTP", in, "InvokeInterchain",
                    SingleArgs(args), "lock")
           /\ ret' = [ret EXCEPT ![p] = [Status |-> TRUE, Message |-> ""]]
           /\ UNCHANGED err

\* the rest of SubmitReceipt: the choice between the two receipt methods
RouteReceipt(p, in) ==
    /\ IF UseMultiReceipt(in.result, in.txStatus)
       THEN Enter(p, "SubmitReceipt", in, "InvokeMultiReceipt",
                  ReceiptResults(in.result), "lock")
       ELSE Enter(p, "SubmitReceipt", in, "InvokeReceipt",
                  ReceiptResults(in.result), "lock")
    /\ ret' = [ret EXCEPT ![p] = [Status |-> TRUE, Message |-> ""]]
    /\ UNCHANGED err

\* the off-chain check at the head of a submit method o, for a destination
\* that is the marker address: a failed query (e one of errs) makes the
\* method return nil and the error; a content that needs no off-chain data
\* goes on (rest); one that does goes on to the push on c.reqCh
OffChainCheck(p, o, in, errs, rest) ==
    \/ \E e \in errs :
          /\ Enter(p, o, in, "none", <<>>, "done")
          /\ err' = [err EXCEPT ![p] = e]
          /\ UNCHANGED ret
    \/ /\ ~in.need
       /\ rest
    \/ /\ in.need
       /\ Enter(p, o, in, "none", <<>>, "push")
       /\ UNCHANGED <<ret, err>>

\* dst is serviceID; need is what CheckInterchainOffChain(content) answers
\* when it is asked (it signals a need only for a content that has the
\* reference argument content.Args[1]); c.GetChainID() is called, and can
\* fail, only after it has signalled one
SubmitIBTP(p, args, dst, need) ==
    /\ ~Crashed
    /\ pc[p] = "idle"
    /\ LET in == [NoInput EXCEPT !.args = args, !.dst = dst, !.need = need]
       IN  IF IsOffChainDst(dst)
           THEN OffChainCheck(p, "SubmitIBTP", in,
                              IF need THEN {ChainIDErr} ELSE {},
                              DecodeIBTP(p, in))
           ELSE DecodeIBTP(p, in)
    /\ UNCHANGED <<lock, calls, tx, txErr, start, seen, waited, receipt, ledgerVars>>
    /\ UNCHANGED <<pushed, used, reqCh>>
    /\ UNCHANGED <<headerVars, restVars>>

\* dst is serviceID; need is what CheckReceiptOffChain(ibtp, result) answers
\* (it signals a need only for a result that has results[0][0]); before it
\* is known c.GetChainID(), c.GetOutMessage() or the check itself can fail
SubmitReceipt(p, result, txStatus, dst, need) ==
    /\ ~Crashed
    /\ pc[p] = "idle"
    /\ LET in == [NoInput EXCEPT !.result = result, !.txStatus = txStatus,
                                 !.dst = dst, !.need = need]
       IN  IF IsOffChainDst(dst)
           THEN OffChainCheck(p, "SubmitReceipt", in,
                              {ChainIDErr, OutMessageErr, OffChainFlagErr},
                              RouteReceipt(p, in))
           ELSE RouteReceipt(p, in)
    /\ UNCHANGED <<lock, calls, tx, txErr, start, seen, waited, receipt, ledgerVars>>
    /\ UNCHANGED <<pushed, used, reqCh>>
    /\ UNCHANGED <<headerVars, restVars>>

\* the reference argument of the request: content.Args[1] in SubmitIBTP,
\* results[0][0] in SubmitReceipt
RequestArg(o, in) ==
    IF o = "SubmitIBTP" THEN in.args[2] ELSE in.result.Data[1][1]

\* c.reqCh <- req, which waits for room in the channel; the submit method
\* then goes on with its decoding
PushReq(p) ==
    /\ ~Crashed
    /\ pc[p] = "push"
    /\ Len(reqCh) < ReqCap
    /\ reqCh' = Append(reqCh, constructReq(p, RequestArg(op[p], input[p])))
    /\ pushed' = [pushed EXCEPT ![p] = pushed[p] + 1]
    /\ UNCHANGED used
    /\ IF op[p] = "SubmitIBTP"
       THEN DecodeIBTP(p, input[p])
       ELSE RouteReceipt(p, input[p])
    /\ UNCHANGED <<lock, calls, tx, txErr, start, seen, waited, receipt, ledgerVars>>
    /\ UNCHANGED <<headerVars, restVars>>

\* the host takes a request from the channel GetOffChainDataReq() gave it
ConsumeReq ==
    /\ ~Crashed
    /\ reqCh # <<>>
    /\ reqCh' = Tail(reqCh)
    /\ UNCHANGED <<lock, callerVars, ledgerVars, headerVars, restVars>>

\* ct.Args = ct.Args[1:] panics on a content without arguments
SubmitIBTPBatch(p, contents) ==
    /\ ~Crashed
    /\ pc[p] = "idle"
    /\ LET in == [NoInput EXCEPT !.batch = contents]
       IN  IF \E i \in 1..Len(contents) : Len(contents[i]) = 0
           THEN Enter(p, "SubmitIBTPBatch", in, "none", <<>>, "panicked")
           ELSE Enter(p, "SubmitIBTPBatch", in, "InvokeInterchains",
                      [i \in 1..Len(contents) |-> SingleArgs(contents[i])], "retry")
    /\ ret' = [ret EXCEPT ![p] = [Status |-> TRUE, Message |-> ""]]
    /\ UNCHANGED <<lock, calls, tx, txErr, start, seen, waited, receipt, err,
                   ledgerVars>>
    /\ UNCHANGED <<pushed, used, reqCh>>
    /\ UNCHANGED <<headerVars, restVars>>

(***************************************************************************)
(* The invoke methods: lock, retry loop, unlock.                            *)
(***************************************************************************)
Min(a, b) == IF a < b THEN a ELSE b

\* a variant of CanLock in which Lock never waits
CanLockAlways(l) == TRUE

\* sync.Mutex: Lock returns only when no caller holds the mutex
CanLock(l) == l = NoCaller

\* c.lock.Lock()
Lock(p) ==
    /\ ~Crashed
    /\ pc[p] = "lock"
    /\ CanLock(lock)
    /\ lock' = p
    /\ pc' = [pc EXCEPT ![p] = "retry"]
    /\ UNCHANGED <<op, input, method, fwd, calls, tx, txErr, start, seen,
                   waited, receipt, ret, err, ledgerVars>>
    /\ UNCHANGED <<pushed, used, reqCh>>
    /\ UNCHANGED <<headerVars, restVars>>

\* the session variant a method of the client calls: the four invoke methods
\* and most queries test c.session == nil and take the variant that is set;
\* SubmitIBTPBatch calls c.session, and GetAppchainInfo and
\* GetDirectTransactionMeta call c.sessionDirect, without a test
SessionFor(m) ==
    CASE m = "InvokeInterchains" -> "session"
      [] m \in {"GetAppchainInfo", "GetDirectTransactionMeta"} -> "sessionDirect"
      [] OTHER -> IF ~session THEN "sessionDirect" ELSE "session"

\* the variant is not nil
IsSet(v) == IF v = "session" THEN session ELSE sessionDirect

\* one attempt of the retried closure: the ledger call is issued, through the
\* session variant of the method; a method called on a nil session
\* dereferences a nil pointer, a run-time panic
LedgerCallBegin(p) ==
    /\ ~Crashed
    /\ pc[p] = "retry"
    /\ used' = [used EXCEPT ![p] = SessionFor(method[p])]
    /\ IF IsSet(SessionFor(method[p]))
       THEN /\ pc' = [pc EXCEPT ![p] = "incall"]
            /\ calls' = [calls EXCEPT ![p] = Min(calls[p] + 1, MaxAttempts)]
       ELSE /\ pc' = [pc EXCEPT ![p] = "panicked"]
            /\ UNCHANGED calls
    /\ UNCHANGED <<lock, op, input, method, fwd, tx, txErr, start, seen,
                   waited, receipt, ret, err, ledgerVars>>
    /\ UNCHANGED <<pushed, reqCh>>
    /\ UNCHANGED <<headerVars, restVars>>

\* the queries of the client that go to the session
Queries == {"GetAppchainInfo", "GetDirectTransactionMeta", "GetChainID", "GetServices"}

\* a query q: one call of a method of its session variant
Query(p, q) ==
    /\ ~Crashed
    /\ pc[p] = "idle"
    /\ op' = [op EXCEPT ![p] = q]
    /\ used' = [used EXCEPT ![p] = SessionFor(q)]
    /\ pc' = [pc EXCEPT ![p] = IF IsSet(SessionFor(q)) THEN "done" ELSE "panicked"]
    /\ UNCHANGED <<lock, input, method, fwd, calls, tx, txErr, start, seen,
                   waited, receipt, ret, err, pushed, ledgerVars, reqCh>>
    /\ UNCHANGED <<headerVars, restVars>>

\* where a caller goes after a ledger call that answered with error e on
\* attempt number attempt
AfterAttempt(e, attempt) == IF RetryAgain(e, attempt) THEN "retry" ELSE "after"

\* the attempt count after a ledger call that answered with error e: the
\* count lives in retry.Retry and ends with the loop
AttemptsAfter(e, attempt) == IF RetryAgain(e, attempt) THEN attempt ELSE 0

\* the ledger accepts the transaction: tx, txErr = handle, nil
LedgerCallOk(p) ==
    /\ ~Crashed
    /\ pc[p] = "incall"
    /\ nextTx <= MaxTx
    /\ tx' = [tx EXCEPT ![p] = nextTx]
    /\ txErr' = [txErr EXCEPT ![p] = NoErr]
    /\ nextTx' = nextTx + 1
    /\ pc' = [pc EXCEPT ![p] = AfterAttempt(NoErr, calls[p])]
    /\ calls' = [calls EXCEPT ![p] = AttemptsAfter(NoErr, calls[p])]
    /\ UNCHANGED <<lock, op, input, method, fwd, start, seen, waited,
                   receipt, ret, err, height>>
    /\ UNCHANGED <<pushed, used, reqCh>>
    /\ UNCHANGED <<headerVars, restVars>>

\* the ledger call fails: tx, txErr = nil, e
LedgerCallErr(p, e) ==
    /\ ~Crashed
    /\ pc[p] = "incall"
    /\ tx' = [tx EXCEPT ![p] = 0]
    /\ txErr' = [txErr EXCEPT ![p] = e]
    /\ pc' = [pc EXCEPT ![p] = AfterAttempt(e, calls[p])]
    /\ calls' = [calls EXCEPT ![p] = AttemptsAfter(e, calls[p])]
    /\ UNCHANGED <<lock, op, input, method, fwd, start, seen, waited,
                   receipt, ret, err, ledgerVars>>
    /\ UNCHANGED <<pushed, used, reqCh>>
    /\ UNCHANGED <<headerVars, restVars>>

\* a variant of Unlocks that keeps c.lock through the confirmation wait
UnlocksAfterWait(m) == FALSE

\* whether the method releases c.lock after its retry loop
Unlocks(m) == TakesLock(m)

\* after the retry loop: c.lock.Unlock() in the methods that took it; with an
\* error the invoke method returns it and the submit method reports it in
\* its response, without one it calls waitForConfirmed(tx.Hash())
AfterRetry(p) ==
    /\ ~Crashed
    /\ pc[p] = "after"
    /\ lock' = IF Unlocks(method[p]) THEN NoCaller ELSE lock
    /\ IF txErr[p] # NoErr
       THEN /\ ret' = [ret EXCEPT ![p] = [Status |-> FALSE, Message |-> txErr[p]]]
            /\ pc' = [pc EXCEPT ![p] = "done"]
            /\ UNCHANGED waited
       ELSE /\ waited' = [waited EXCEPT ![p] = tx[p]]
            /\ pc' = [pc EXCEPT ![p] = "wfcStart"]
            /\ UNCHANGED ret
    /\ UNCHANGED <<op, input, method, fwd, calls, tx, txErr, start, seen,
                   receipt, err, ledgerVars>>
    /\ UNCHANGED <<pushed, used, reqCh>>
    /\ UNCHANGED <<headerVars, restVars>>

(***************************************************************************)
(* waitForConfirmed.                                                        *)
(***************************************************************************)
\* the loop condition: c.getBestBlock()-start < c.config.Ether.MinConfirm
StillWaiting(cur, st) == SubU64(cur, st) < MinConfirm

\* c.ethClient.BlockNumber(c.ctx) and c.ethClient.TransactionReceipt(c.ctx,
\* hash) answer only while c.ctx is live: on a cancelled context they return
\* the context's error, and retry.Retry with strategy.Wait calls them again,
\* without end
CtxCallAnswers == ~cancelled

\* a variant of Frame in which every invocation uses the locals of one
SharedFrame(p) == "c1"

\* where an invocation keeps start, the height its depth check read and
\* receipt: they are locals of waitForConfirmed (var receipt, start :=), so
\* each invocation has its own
Frame(p) == p

\* start := c.getBestBlock()
WaitStart(p) ==
    /\ ~Crashed
    /\ pc[p] = "wfcStart"
    /\ CtxCallAnswers
    /\ start' = [start EXCEPT ![Frame(p)] = height]
    /\ pc' = [pc EXCEPT ![p] = "wfcLoop"]
    /\ UNCHANGED <<lock, op, input, method, fwd, calls, tx, txErr, seen,
                   waited, receipt, ret, err, ledgerVars>>
    /\ UNCHANGED <<pushed, used, reqCh>>
    /\ UNCHANGED <<headerVars, restVars>>

\* one evaluation of the loop condition: the loop sleeps and evaluates it
\* again, or ends; seen keeps the height that ended it
WaitCheck(p) ==
    /\ ~Crashed
    /\ pc[p] = "wfcLoop"
    /\ CtxCallAnswers
    /\ ~StillWaiting(height, start[Frame(p)])
    /\ seen' = [seen EXCEPT ![Frame(p)] = height]
    /\ pc' = [pc EXCEPT ![p] = "wfcReceipt"]
    /\ UNCHANGED <<lock, op, input, method, fwd, calls, tx, txErr, start,
                   waited, receipt, ret, err, ledgerVars>>
    /\ UNCHANGED <<pushed, used, reqCh>>
    /\ UNCHANGED <<headerVars, restVars>>

\* the receipt is fetched, waitForConfirmed returns it (its locals end with
\* it), and the submit method builds its response from it
WaitReceipt(p, status) ==
    /\ ~Crashed
    /\ pc[p] = "wfcReceipt"
    /\ CtxCallAnswers
    /\ LET rcpt == TransactionReceipt(waited[p], status)
       IN  /\ receipt' = [receipt EXCEPT ![Frame(p)] = rcpt]
           /\ ret' = [ret EXCEPT ![p] = ResponseOf(op[p], rcpt)]
    /\ start' = [start EXCEPT ![Frame(p)] = 0]
    /\ seen' = [seen EXCEPT ![Frame(p)] = 0]
    /\ pc' = [pc EXCEPT ![p] = "done"]
    /\ UNCHANGED <<lock, op, input, method, fwd, calls, tx, txErr, waited,
                   err, ledgerVars>>
    /\ UNCHANGED <<pushed, used, reqCh>>
    /\ UNCHANGED <<headerVars, restVars>>

\* the submit method returns to the host runtime
Return(p) ==
    /\ ~Crashed
    /\ pc[p] = "done"
    /\ pc' = [pc EXCEPT ![p] = "idle"]
    /\ op' = [op EXCEPT ![p] = "none"]
    /\ input' = [input EXCEPT ![p] = NoInput]
    /\ method' = [method EXCEPT ![p] = "none"]
    /\ fwd' = [fwd EXCEPT ![p] = <<>>]
    /\ calls' = [calls EXCEPT ![p] = 0]
    /\ tx' = [tx EXCEPT ![p] = 0]
    /\ txErr' = [txErr EXCEPT ![p] = NoErr]
    /\ start' = [start EXCEPT ![p] = 0]
    /\ seen' = [seen EXCEPT ![p] = 0]
    /\ waited' = [waited EXCEPT ![p] = 0]
    /\ receipt' = [receipt EXCEPT ![p] = NoReceipt]
    /\ ret' = [ret EXCEPT ![p] = NoRet]
    /\ err' = [err EXCEPT ![p] = NoErr]
    /\ pushed' = [pushed EXCEPT ![p] = 0]
    /\ used' = [used EXCEPT ![p] = "none"]
    /\ UNCHANGED <<lock, ledgerVars, reqCh>>
    /\ UNCHANGED <<headerVars, restVars>>

(***************************************************************************)
(* The ledger.                                                              *)
(***************************************************************************)
\* a block is added to the best chain
MineBlock(max) ==
    /\ ~Crashed
    /\ height < max
    /\ height' = height + 1
    /\ UNCHANGED <<lock, callerVars, nextTx, reqCh, headerVars, restVars>>

\* the node reports a lower best height than before (a reorganisation to a
\* shorter chain, a node behind a load balancer that lags)
LowerHeight(h) ==
    /\ ~Crashed
    /\ h < height
    /\ height' = h
    /\ UNCHANGED <<lock, callerVars, nextTx, reqCh, headerVars, restVars>>

(***************************************************************************)
(* Inputs.                                                                  *)
(***************************************************************************)
ArgA == <<97>>
ArgB == <<98>>

\* the sequences over S of length at most n
SeqsUpTo(S, n) == UNION {[1..k -> S] : k \in 0..n}

MultiTag == PutUint64(IBTP_Multi)
SingleTag == PutUint64(IBTP_INTERCHAIN)

\* every message of the bounds: multi-type ones with every group size and
\* every list of trailing arguments, single-type ones, and malformed ones
\* n arguments, each different from the others: <<1>>, <<2>>, ..., <<n>>
Trail(n) == [k \in 1..n |-> <<k>>]

AllIBTPArgs ==
    {<<MultiTag, PutUint64(n)>> \o Trail(l) : n \in 0..MaxNum, l \in 0..MaxTrail}
    \cup {<<SingleTag>> \o Trail(l) : l \in 0..MaxTrail}
    \cup {<<>>, <<MultiTag>>, <<ArgA>>, <<MultiTag, ArgA, ArgB>>}

AllResults ==
    [Data : {[k \in 1..n |-> <<ArgA, ArgB>>] : n \in 0..MaxResults},
     MultiStatus : SeqsUpTo(BOOLEAN, MaxResults)]

AllBatches == {<<>>, <<(<<SingleTag, ArgA>>)>>, <<(<<SingleTag, ArgA>>), (<<SingleTag>>)>>,
               <<(<<>>)>>}

\* the messages the concurrent callers of Spec submit
FewIBTPArgs ==
    {<<SingleTag, ArgA>>, <<MultiTag, PutUint64(2), ArgA>>,
     <<MultiTag, PutUint64(0), ArgA>>}
FewResults == {[Data |-> <<>>, MultiStatus |-> <<>>]}
FewBatches == {<<(<<SingleTag, ArgA>>)>>}

(***************************************************************************)
(* Specifications.                                                          *)
(***************************************************************************)
CallerStep(p) ==
    \/ Lock(p)
    \/ LedgerCallBegin(p)
    \/ LedgerCallOk(p)
    \/ \E e \in RevertErrs \cup TransientErrs : LedgerCallErr(p, e)
    \/ AfterRetry(p)
    \/ WaitStart(p)
    \/ WaitCheck(p)
    \/ \E s \in {ReceiptStatusSuccessful, ReceiptStatusFailed} : WaitReceipt(p, s)
    \/ Return(p)

Ledger ==
    \/ MineBlock(MaxHeight)
    \/ \E h \in 0..MaxHeight : LowerHeight(h)

\* concurrent callers of the three submit methods
Next ==
    \/ \E p \in Callers : \E a \in FewIBTPArgs : SubmitIBTP(p, a, OtherAddr, FALSE)
    \/ \E p \in Callers : \E r \in FewResults : \E s \in {"BEGIN", "SUCCESS"} :
          SubmitReceipt(p, r, s, OtherAddr, FALSE)
    \/ \E p \in Callers : \E b \in FewBatches : SubmitIBTPBatch(p, b)
    \/ \E p \in Callers : CallerStep(p)
    \/ Ledger

Init == InitSubmit /\ InitHeaderPool({0}) /\ InitSession({relayMode}) /\ InitRest

Spec == Init /\ [][Next]_vars

\* one caller, every input of the bounds
NextArgs ==
    \/ \E a \in AllIBTPArgs : SubmitIBTP("c1", a, OtherAddr, FALSE)
    \/ \E r \in AllResults : \E s \in TxStatuses : SubmitReceipt("c1", r, s, OtherAddr, FALSE)
    \/ \E b \in AllBatches : SubmitIBTPBatch("c1", b)
    \/ CallerStep("c1")
    \/ Ledger

SpecArgs == Init /\ [][NextArgs]_vars

(***************************************************************************)
(* The header synchronisation pool.                                         *)
(***************************************************************************)
\* c.ethClient.HeaderByNumber(c.ctx, n) answers with the header of height n
\* when the chain has one and the context is live; a header is modelled by
\* its height
HasHeader(n) == n <= height /\ ~cancelled

\* the number listenHeader asks HeaderByNumber for
FetchNumber(i, cur) == cur

\* the loop condition of listenHeader: i <= latestHeight-Threshold, on uint64
InRange(i, latest) == i <= SubU64(latest, Threshold)

\* c.cancel()
Stop ==
    /\ ~cancelled
    /\ cancelled' = TRUE
    /\ UNCHANGED <<submitVars, restVars, currentNum, recvHeaderCh, headersSet, metaC, lpc,
                   latestHeight, loopI, header, ppc, batch, emptyTicks>>

\* listenHeader, case <-ticker.C: the latest height is read and the loop is
\* entered with i = currentNum+1 (a failed read goes back to the select)
ListenTick ==
    /\ lpc = "select"
    /\ ~cancelled
    /\ latestHeight' = height
    /\ loopI' = currentNum + 1
    /\ lpc' = "loop"
    /\ UNCHANGED <<submitVars, restVars, cancelled, currentNum, recvHeaderCh, headersSet,
                   metaC, header, ppc, batch, emptyTicks>>

\* one evaluation of the loop: past the range the loop ends; within it a
\* header is fetched, and a failed fetch (no such header, a cancelled
\* context, a transport error) makes listenHeader return
ListenFetch ==
    /\ lpc = "loop"
    /\ IF ~InRange(loopI, latestHeight)
       THEN /\ lpc' = "select"
            /\ loopI' = 0
            /\ UNCHANGED header
       ELSE \/ /\ HasHeader(FetchNumber(loopI, currentNum))
               /\ header' = FetchNumber(loopI, currentNum)
               /\ lpc' = "send"
               /\ UNCHANGED loopI
            \/ /\ lpc' = "returned"
               /\ loopI' = 0
               /\ UNCHANGED header
    /\ UNCHANGED <<submitVars, restVars, cancelled, currentNum, recvHeaderCh, headersSet,
                   metaC, latestHeight, ppc, batch, emptyTicks>>

\* c.headerPool.recvHeaderCh <- header, which waits for room in the channel,
\* then currentNum++ and i++
ListenSend ==
    /\ lpc = "send"
    /\ Len(recvHeaderCh) < RecvCap
    /\ recvHeaderCh' = Append(recvHeaderCh, header)
    /\ currentNum' = currentNum + 1
    /\ loopI' = loopI + 1
    /\ header' = 0
    /\ lpc' = "loop"
    /\ sent' = Append(sent, header)
    /\ UNCHANGED <<submitVars, otherVars, posted, cancelled, headersSet, metaC,
                   latestHeight, ppc, batch, emptyTicks>>

\* listenHeader, case <-c.ctx.Done()
ListenDone ==
    /\ lpc = "select"
    /\ cancelled
    /\ lpc' = "returned"
    /\ UNCHANGED <<submitVars, restVars, cancelled, currentNum, recvHeaderCh, headersSet,
                   metaC, latestHeight, loopI, header, ppc, batch, emptyTicks>>

\* postHeaders, case header := <-c.headerPool.recvHeaderCh: headerPool.append
PostReceive ==
    /\ ppc = "select"
    /\ recvHeaderCh # <<>>
    /\ headersSet' = Append(headersSet, Head(recvHeaderCh))
    /\ recvHeaderCh' = Tail(recvHeaderCh)
    /\ UNCHANGED <<submitVars, restVars, cancelled, currentNum, metaC, lpc, latestHeight,
                   loopI, header, ppc, batch, emptyTicks>>

\* a variant of ShouldPost that posts on every tick
ShouldPostAlways(buf) == TRUE

\* whether a tick posts the buffer: len(c.headerPool.headersSet) != 0
ShouldPost(buf) == Len(buf) # 0

\* a variant of BufferAfterPost that keeps the headers in the buffer
BufferKept(buf) == buf

\* the buffer after its headers were taken as a batch:
\* c.headerPool.headersSet = make([]*types.Header, 0, defaultCap)
BufferAfterPost(buf) == <<>>

\* postHeaders, case <-ticker.C: a buffer to post is taken as the batch and
\* replaced by an empty one
PostTick ==
    /\ ppc = "select"
    /\ IF ShouldPost(headersSet)
       THEN /\ batch' = headersSet
            /\ headersSet' = BufferAfterPost(headersSet)
            /\ ppc' = "send"
            /\ UNCHANGED emptyTicks
       ELSE /\ emptyTicks' = TRUE
            /\ UNCHANGED <<batch, headersSet, ppc>>
    /\ UNCHANGED <<submitVars, restVars, cancelled, currentNum, recvHeaderCh, metaC, lpc,
                   latestHeight, loopI, header>>

\* c.metaC <- &pb.UpdateMeta{Meta: data}, which waits for room in the
\* channel; data is the batch as json.Marshal writes it, header by header in
\* the order of the batch
PostSend ==
    /\ ppc = "send"
    /\ Len(metaC) < MetaCap
    /\ metaC' = Append(metaC, [Meta |-> batch])
    /\ batch' = <<>>
    /\ ppc' = "select"
    /\ posted' = posted \o batch
    /\ UNCHANGED <<submitVars, otherVars, sent, cancelled, currentNum, recvHeaderCh,
                   headersSet, lpc, latestHeight, loopI, header, emptyTicks>>

\* postHeaders, case <-c.ctx.Done()
PostDone ==
    /\ ppc = "select"
    /\ cancelled
    /\ ppc' = "returned"
    /\ UNCHANGED <<submitVars, restVars, cancelled, currentNum, recvHeaderCh, headersSet,
                   metaC, lpc, latestHeight, loopI, header, batch, emptyTicks>>

\* the relay hub takes a batch from the metadata channel
ConsumeMeta ==
    /\ metaC # <<>>
    /\ metaC' = Tail(metaC)
    /\ UNCHANGED <<submitVars, restVars, cancelled, currentNum, recvHeaderCh, headersSet,
                   lpc, latestHeight, loopI, header, ppc, batch, emptyTicks>>

NextHeader ==
    \/ ListenTick
    \/ ListenFetch
    \/ ListenSend
    \/ ListenDone
    \/ PostReceive
    \/ PostTick
    \/ PostSend
    \/ PostDone
    \/ ConsumeMeta
    \/ Stop
    \/ MineBlock(MaxLatest)
    \/ \E h \in 0..MaxLatest : LowerHeight(h)

\* the header pool of a client nobody submits to
InitHeader ==
    InitSubmit /\ InitHeaderPool(0..1) /\ InitSession({relayMode}) /\ InitRest

SpecHeader == InitHeader /\ [][NextHeader]_vars

(***************************************************************************)
(* Properties of the header pool.                                           *)
(***************************************************************************)
\* the batches emitted and not yet taken by the relay hub, and the one
\* postHeaders is emitting
EmittedBatches ==
    {metaC[k].Meta : k \in 1..Len(metaC)} \cup (IF ppc = "send" THEN {batch} ELSE {})

Consecutive(b) == \A k \in 1..(Len(b) - 1) : b[k + 1] = b[k] + 1

\* C10: every batch postHeaders emits is non-empty and holds headers of
\* consecutive, increasing heights; a tick on an empty buffer emits none.
C10_BatchesNonEmptyConsecutive ==
    \A b \in EmittedBatches : Len(b) >= 1 /\ Consecutive(b)

C10_Witness ==
    /\ emptyTicks
    /\ \E k \in 1..Len(metaC) : Len(metaC[k].Meta) >= 3

\* the ledger answers a caller's call with a success or a revert
Settle(p) ==
    \/ LedgerCallOk(p)
    \/ \E e \in RevertErrs : LedgerCallErr(p, e)

\* concurrent callers, one well-formed input per submit method
NextLive ==
    \/ \E p \in Callers : SubmitIBTP(p, <<SingleTag, ArgA>>, OtherAddr, FALSE)
    \/ \E p \in Callers : \E r \in FewResults : SubmitReceipt(p, r, "BEGIN", OtherAddr, FALSE)
    \/ \E p \in Callers : \E b \in FewBatches : SubmitIBTPBatch(p, b)
    \/ \E p \in Callers : CallerStep(p)
    \/ Ledger

\* every caller's retry loop goes on to its next attempt, and the ledger
\* eventually answers a caller that keeps calling with a success or a revert
SpecLive ==
    /\ Init /\ [][NextLive]_vars
    /\ \A p \in Callers : WF_vars(LedgerCallBegin(p)) /\ SF_vars(Settle(p))

(***************************************************************************)
(* Properties of the transaction submitter.                                 *)
(***************************************************************************)
InLedgerCall(p) == pc[p] = "incall"
InRetryLoop(p) == pc[p] \in {"retry", "incall"}

\* C1: every ledger-mutating call is issued by a caller that holds c.lock, so
\* at most one caller is inside a ledger-mutating call at a time.
C1_LedgerCallsUnderLock ==
    /\ \A p \in Callers : InLedgerCall(p) => lock = p
    /\ Cardinality({p \in Callers : InLedgerCall(p)}) <= 1

\* C2: a caller that is past the depth loop of waitForConfirmed, about to
\* fetch the receipt, has read a best height that lies at least MinConfirm
\* above the height recorded at the start of the wait.
C2_DepthReachedBeforeReceipt ==
    \A p \in Callers : pc[p] = "wfcReceipt" => seen[p] - start[p] >= MinConfirm

\* C3: once a ledger call has answered with a revert, the submission makes no
\* further ledger call and starts no confirmation wait, and the submit method
\* returns Status=false, the revert text as Message, and a nil error.
C3_RevertEndsSubmission ==
    \A p \in Callers :
        txErr[p] \in RevertErrs =>
            /\ pc[p] \in {"after", "done"}
            /\ waited[p] = 0
            /\ receipt[p] = NoReceipt
            /\ pc[p] = "done" =>
                  /\ ret[p] = [Status |-> FALSE, Message |-> txErr[p]]
                  /\ err[p] = NoErr

C3_Witness ==
    /\ \E p \in Callers :
          /\ pc[p] = "done"
          /\ method[p] = "InvokeMultiInterchain"
          /\ txErr[p] = "execution reverted: dst service not registered"
          /\ ret[p].Message = "execution reverted: dst service not registered"

\* C4: a ledger-call error that is not a revert never leaves the retry loop
\* and is never returned by a submit method; and a caller in the retry loop
\* leaves it once the ledger answers with a success or a revert (or the
\* process has ended).
C4_TransientStaysInLoop ==
    \A p \in Callers :
        /\ txErr[p] \in TransientErrs => InRetryLoop(p)
        /\ pc[p] = "done" => ret[p].Message \notin TransientErrs /\ err[p] \notin TransientErrs

C4_RetriedUntilSettled ==
    /\ []C4_TransientStaysInLoop
    /\ \A p \in Callers : InRetryLoop(p) ~> (~InRetryLoop(p) \/ Crashed)

C4_Witness ==
    \E p \in Callers :
        /\ pc[p] = "retry"
        /\ calls[p] = MaxAttempts
        /\ txErr[p] \in TransientErrs

Divides(n, l) == \E k \in 0..l : k * n = l

\* the message is multi-type and its group size decodes to n
IsMultiWithNum(args, n) ==
    /\ Len(args) >= 2
    /\ args[1] = PutUint64(IBTP_Multi)
    /\ args[2] = PutUint64(n)

\* C6: for a multi-type message with any group size num >= 0, SubmitIBTP
\* returns and does not crash; and when len(Args)-2 is not a multiple of num
\* it returns the format error without a ledger call.
C6_FormatErrorNeverCrash ==
    \A p \in Callers : \A n \in 0..MaxNum :
        (op[p] = "SubmitIBTP" /\ IsMultiWithNum(input[p].args, n)) =>
            /\ pc[p] # "panicked"
            /\ ~Divides(n, Len(input[p].args) - 2) =>
                  /\ pc[p] = "done"
                  /\ err[p] = FormatErr
                  /\ method[p] = "none" /\ calls[p] = 0 /\ tx[p] = 0

\* C7: for a multi-type message that SubmitIBTP accepts, with L trailing
\* arguments and group size num, InvokeMultiInterchain and the ledger call
\* get L/num groups of num elements, group k holding the trailing arguments
\* (k-1)*num+1 .. k*num in their order.
C7_GroupsPartitionTrailingArgs ==
    \A p \in Callers : \A n \in 0..MaxNum :
        (method[p] = "InvokeMultiInterchain" /\ IsMultiWithNum(input[p].args, n)) =>
            LET args == input[p].args
                L == Len(args) - 2
            IN  /\ n > 0
                /\ Len(fwd[p]) * n = L
                /\ \A k \in 1..Len(fwd[p]) :
                      fwd[p][k] = [j \in 1..n |-> args[2 + (k - 1) * n + j]]

C7_Witness ==
    \E p \in Callers :
        /\ InLedgerCall(p)
        /\ method[p] = "InvokeMultiInterchain"
        /\ IsMultiWithNum(input[p].args, 2)
        /\ fwd[p] = <<(<<(<<1>>), (<<2>>)>>), (<<(<<3>>), (<<4>>)>>)>>

C9_SingleForwardsArgsWithoutTag ==
    \A p \in Callers :
        (/\ op[p] = "SubmitIBTP"
         /\ Len(input[p].args) >= 1
         /\ input[p].args[1] = PutUint64(IBTP_INTERCHAIN)) =>
            /\ method[p] = "InvokeInterchain"
            /\ Len(fwd[p]) = Len(input[p].args) - 1
            /\ \A k \in 1..Len(fwd[p]) : fwd[p][k] = input[p].args[k + 1]

C9_Witness ==
    \E p \in Callers :
        /\ InLedgerCall(p)
        /\ method[p] = "InvokeInterchain"
        /\ input[p].args = <<PutUint64(IBTP_INTERCHAIN), <<1>>, <<2>>>>
        /\ fwd[p] = <<(<<1>>), (<<2>>)>>

(***************************************************************************)
(* Shutdown of the header pool.                                             *)
(***************************************************************************)
\* listenHeader waits in c.headerPool.recvHeaderCh <- header, a send outside
\* any select, on a full channel
ListenBlockedOnSend == lpc = "send" /\ Len(recvHeaderCh) = RecvCap

\* C11: after the context is cancelled both loops return; in particular
\* listenHeader is never left waiting on a send to a full header-receive
\* channel whose only reader, postHeaders, has returned (a state no step of
\* the client leaves).
C11_NoLoopLeftOnSend ==
    ~(cancelled /\ ListenBlockedOnSend /\ ppc = "returned")

(***************************************************************************)
(* The lock and the confirmation wait.                                      *)
(***************************************************************************)
InWaitForConfirmed(p) == pc[p] \in {"wfcStart", "wfcLoop", "wfcReceipt"}

\* C19: no caller inside waitForConfirmed holds c.lock: the four invoke
\* methods release it before the wait begins.
C19_WaitOutsideLock ==
    \A p \in Callers : InWaitForConfirmed(p) => lock # p

\* a second submission is inside its ledger call, under the lock, while the
\* first is still waiting for its confirmation
C19_Witness ==
    \E p, q \in Callers :
        /\ p # q
        /\ InWaitForConfirmed(p) /\ TakesLock(method[p])
        /\ InLedgerCall(q) /\ TakesLock(method[q]) /\ lock = q

(***************************************************************************)
(* The heights listenHeader pushes.                                         *)
(***************************************************************************)
\* C20: each push of listenHeader puts the header of height i, the loop
\* index, on the header-receive channel, and after the push currentNum
\* equals the height of the header just pushed (stated for the ticks whose
\* latest height is at least Threshold, where latestHeight-Threshold does
\* not wrap).
C20_PushesHeaderOfLoopIndex ==
    [][(ListenSend /\ latestHeight >= Threshold) =>
          /\ recvHeaderCh' = Append(recvHeaderCh, loopI)
          /\ currentNum' = loopI]_vars

(***************************************************************************)
(* Submissions in flight when Stop cancels the context.                     *)
(***************************************************************************)
\* the steps of waitForConfirmed
WaitStep(p) ==
    \/ WaitStart(p)
    \/ WaitCheck(p)
    \/ \E s \in {ReceiptStatusSuccessful, ReceiptStatusFailed} : WaitReceipt(p, s)

\* one submitter, and Stop at any moment
NextStop ==
    \/ SubmitIBTP("c1", <<SingleTag, ArgA>>, OtherAddr, FALSE)
    \/ \E r \in FewResults : SubmitReceipt("c1", r, "BEGIN", OtherAddr, FALSE)
    \/ \E b \in FewBatches : SubmitIBTPBatch("c1", b)
    \/ CallerStep("c1")
    \/ Ledger
    \/ Stop

\* the ledger keeps answering: a call in the retry loop is answered with a
\* success or a revert, and every step of waitForConfirmed that can be taken
\* is taken
SpecStop ==
    /\ Init /\ [][NextStop]_vars
    /\ WF_vars(LedgerCallBegin("c1")) /\ SF_vars(Settle("c1"))
    /\ WF_vars(WaitStep("c1"))

\* C16: a submission that has begun its confirmation wait, or has reached
\* the confirmation depth and is about to fetch its receipt, goes on to the
\* next stage of the wait and returns, whether or not the context has been
\* cancelled in between.
C16_WaitSurvivesStop ==
    /\ (pc["c1"] = "wfcStart") ~> (pc["c1"] = "wfcLoop" \/ Crashed)
    /\ (pc["c1"] = "wfcReceipt") ~> (pc["c1"] = "done" \/ Crashed)

(***************************************************************************)
(* The off-chain request channel.                                           *)
(***************************************************************************)
\* a receipt result with one sub-result, whose first entry is results[0][0]
OffResult == [Data |-> <<(<<ArgA>>)>>, MultiStatus |-> <<>>]

\* the messages submitted to the marker address: a single-type one, and a
\* multi-type one whose one trailing argument is not a multiple of its
\* group size 2
OffChainIBTPArgs == {<<SingleTag, ArgA>>, <<MultiTag, PutUint64(2), ArgA>>}

\* a caller submitting to the marker address, in either spelling, and to
\* another address, with and without an off-chain need; the host reads the
\* request channel
NextOffChain ==
    \/ \E dst \in ServiceIDs : \E need \in BOOLEAN : \E args \in OffChainIBTPArgs :
          SubmitIBTP("c1", args, dst, need)
    \/ \E dst \in ServiceIDs : \E need \in BOOLEAN :
          SubmitReceipt("c1", OffResult, "BEGIN", dst, need)
    \/ PushReq("c1")
    \/ ConsumeReq
    \/ CallerStep("c1")
    \/ Ledger

SpecOffChain == Init /\ [][NextOffChain]_vars

\* the spellings of the marker address among the destinations
MarkerSpellings == {"0xAB12", "0xab12"}

\* the call is to the marker address and the content check signals a need
WantsOffChain(p) == input[p].dst \in MarkerSpellings /\ input[p].need

\* the call is past the point of its push
PastPush(p) == pc[p] \notin {"idle", "push"}

\* every step that moves a caller on from its push found room in the channel
\* and appended that caller's request
PushWaitsForRoom ==
    \A p \in Callers :
        (pc[p] = "push" /\ pc'[p] # "push") =>
            /\ Len(reqCh) < ReqCap
            /\ Len(reqCh') = Len(reqCh) + 1
            /\ reqCh'[Len(reqCh')].From = p

\* C15, as stated: a SubmitIBTP call to the marker address whose content
\* check signals a need has pushed exactly one request once it is past the
\* point of the push, and any other call has pushed none.
C15_OnePushWhenNeeded ==
    \A p \in Callers :
        (op[p] = "SubmitIBTP" /\ PastPush(p)) =>
            pushed[p] = IF WantsOffChain(p) THEN 1 ELSE 0

\* the same, except for a call whose c.GetChainID() failed
OnePushUnlessChainIDFails ==
    \A p \in Callers :
        op[p] = "SubmitIBTP" =>
            /\ pushed[p] <= 1
            /\ pushed[p] = 1 => WantsOffChain(p)
            /\ (PastPush(p) /\ WantsOffChain(p) /\ err[p] # ChainIDErr) => pushed[p] = 1
            /\ err[p] = ChainIDErr =>
                  /\ WantsOffChain(p) /\ pc[p] = "done"
                  /\ pushed[p] = 0 /\ ret[p] = NoRet
                  /\ method[p] = "none" /\ calls[p] = 0 /\ tx[p] = 0
            /\ (InLedgerCall(p) /\ WantsOffChain(p)) => pushed[p] = 1

\* C15, amended: SubmitIBTP pushes exactly one request when the destination
\* is the marker address in any spelling, the content check signals a need
\* and c.GetChainID() answers, and none otherwise; when c.GetChainID() fails
\* it returns that error and makes no ledger call. The push comes before the
\* ledger call, the channel never holds more than its capacity, and a caller
\* at its push moves on only by a step that found room in the channel.
C15_OnePushUnlessChainIDFails ==
    /\ [](OnePushUnlessChainIDFails /\ Len(reqCh) <= ReqCap)
    /\ [][PushWaitsForRoom]_vars

\* a call to the marker address spelled in lower case is blocked at its push:
\* the channel is full of the requests of earlier calls
C15_Witness ==
    /\ pc["c1"] = "push" /\ op["c1"] = "SubmitIBTP" /\ input["c1"].dst = "0xab12"
    /\ Len(reqCh) = ReqCap
    /\ \A k \in 1..Len(reqCh) : reqCh[k].From = "c1"

(***************************************************************************)
(* The two session variants.                                                *)
(***************************************************************************)
\* a client initialized in either mode: one caller of the submit methods and
\* of the queries
NextMode ==
    \/ SubmitIBTP("c1", <<SingleTag, ArgA>>, OtherAddr, FALSE)
    \/ \E r \in FewResults : SubmitReceipt("c1", r, "BEGIN", OtherAddr, FALSE)
    \/ \E b \in FewBatches : SubmitIBTPBatch("c1", b)
    \/ \E q \in Queries : Query("c1", q)
    \/ CallerStep("c1")
    \/ Ledger

InitMode ==
    /\ InitSubmit /\ InitHeaderPool({0}) /\ InitRest
    /\ InitSession({relayMode, directMode})

SpecMode == InitMode /\ [][NextMode]_vars

\* C17: exactly one session variant is set, and every operation calls only
\* the variant that is set.
C17_OnlySelectedVariantUsed ==
    /\ session # sessionDirect
    /\ \A p \in Callers : used[p] # "none" => IsSet(used[p])

(***************************************************************************)
(* The event-to-message converter.                                          *)
(***************************************************************************)
\* a string is the sequence of its characters
Comma == ","
Chars == {"f", Comma}
Strings(n) == UNION {[1..k -> Chars] : k \in 0..n}

\* strings.Split(s, ","): the pieces of s between its commas, in order; a
\* string without a comma is one piece
RECURSIVE SplitFrom(_, _, _)
SplitFrom(s, i, piece) ==
    IF i > Len(s) THEN <<piece>>
    ELSE IF s[i] = Comma THEN <<piece>> \o SplitFrom(s, i + 1, <<>>)
    ELSE SplitFrom(s, i + 1, Append(piece, s[i]))

Split(s) == SplitFrom(s, 1, <<>>)

\* handleArgs: the pieces of the arguments field, each as bytes
handleArgs(args) == Split(args)

\* encryptPayload goes on when len(funcs) == 3
FuncsOk(funcs) == Len(funcs) = 3

\* encryptPayload: the error for a functions field that does not split into
\* three, else the payload (the content as it is marshalled, field by field)
encryptPayload(ev) ==
    LET funcs == Split(ev.Funcs)
    IN  IF ~FuncsOk(funcs)
        THEN [err |-> "expected 3 functions", pd |-> <<>>]
        ELSE [err |-> NoErr,
              pd |-> <<funcs[1], handleArgs(ev.Args), funcs[2],
                       handleArgs(ev.Args), funcs[3], handleArgs(ev.Args)>>]

\* Convert2IBTP(ev, from, ibtpType): with an error of encryptPayload it calls
\* log.Fatalf, which writes the message and ends the process by os.Exit(1);
\* else it returns the message
Convert2IBTP(ev) ==
    /\ ~Crashed
    /\ ~exited
    /\ event' = ev
    /\ LET r == encryptPayload(ev)
       IN  IF r.err # NoErr
           THEN /\ exited' = TRUE
                /\ ibtp' = NoIBTP
           ELSE /\ ibtp' = [Index |-> ev.Index, Payload |-> r.pd]
                /\ UNCHANGED exited
    /\ UNCHANGED <<submitVars, headerVars, sessionVars, dataVars, poolHistory>>

\* the events of the bounds
Events == [Funcs : Strings(MaxFuncs), Args : Strings(MaxArgs), Index : 1..MaxIndex]

NextEvent == \E ev \in Events : Convert2IBTP(ev)

SpecEvent == Init /\ [][NextEvent]_vars

\* the number of commas of a string
RECURSIVE Commas(_)
Commas(s) == IF s = <<>> THEN 0
             ELSE (IF Head(s) = Comma THEN 1 ELSE 0) + Commas(Tail(s))

\* the functions field of the event does not hold exactly three tokens
Malformed(ev) == Commas(ev.Funcs) # 2

\* C18: after Convert2IBTP was called with an event whose functions field
\* does not split into exactly three tokens, the process keeps running and
\* no message was produced.
C18_MalformedEventReturnsError ==
    (event # NoEvent /\ Malformed(event)) => (~exited /\ ibtp = NoIBTP)

(***************************************************************************)
(* SubmitOffChainData: the reassembly of a sharded transfer.                *)
(***************************************************************************)
\* the bytes of shard i of transfer t, the file
\* <response.Data>/from-to-index-i-shardSize
ShardData(t, i) == <<t, i>>

\* the bytes of the shards 1..n of transfer t, one after the other
RECURSIVE ConcatShards(_, _)
ConcatShards(t, n) ==
    IF n = 0 THEN <<>> ELSE ConcatShards(t, n - 1) \o ShardData(t, n)

\* the first value of the loop variable: i := uint64(1)
FirstShard == 1

\* the frame of the steps of SubmitOffChainData
DataFrame == UNCHANGED <<submitVars, headerVars, sessionVars, eventVars, poolHistory>>

\* the call, up to the loop: with an outcome tag other than success it
\* returns the error "tag:msg"; else it names the output file after the
\* message and the current time and opens it with O_CREATE|O_WRONLY|O_APPEND,
\* which creates the file when there is none and keeps its bytes when there
\* is one; a failed open returns its error
SubmitOffChainData(p, r) ==
    /\ dpc[p] = "idle"
    /\ ncalls < MaxCalls
    /\ ncalls' = ncalls + 1
    /\ resp' = [resp EXCEPT ![p] = r]
    /\ IF r.Type # DATA_GET_SUCCESS
       THEN /\ derr' = [derr EXCEPT ![p] = <<r.Type, ":", r.Msg>>]
            /\ dpc' = [dpc EXCEPT ![p] = "done"]
            /\ UNCHANGED <<files, dname, di>>
       ELSE LET name == FileName(r.Msg, now)
            IN  \/ /\ files' = [files EXCEPT ![name].exists = TRUE]
                   /\ dname' = [dname EXCEPT ![p] = name]
                   /\ di' = [di EXCEPT ![p] = FirstShard]
                   /\ dpc' = [dpc EXCEPT ![p] = "loop"]
                   /\ UNCHANGED derr
                \/ /\ derr' = [derr EXCEPT ![p] = OpenErr]
                   /\ dpc' = [dpc EXCEPT ![p] = "done"]
                   /\ UNCHANGED <<files, dname, di>>
    /\ UNCHANGED <<now, ddata, dreads>>
    /\ DataFrame

\* one evaluation of the loop: past shardSize the call returns nil; else
\* shard i is opened and read, and a failure returns its error
DataRead(p) ==
    /\ dpc[p] = "loop"
    /\ IF di[p] > resp[p].ShardSize
       THEN /\ dpc' = [dpc EXCEPT ![p] = "done"]
            /\ UNCHANGED <<ddata, derr, dreads>>
       ELSE /\ dreads' = [dreads EXCEPT ![p] = Append(dreads[p], di[p])]
            /\ \/ /\ ddata' = [ddata EXCEPT ![p] = ShardData(resp[p].Transfer, di[p])]
                  /\ dpc' = [dpc EXCEPT ![p] = "write"]
                  /\ UNCHANGED derr
               \/ /\ derr' = [derr EXCEPT ![p] = ReadErr]
                  /\ dpc' = [dpc EXCEPT ![p] = "done"]
                  /\ UNCHANGED ddata
    /\ UNCHANGED <<now, files, ncalls, resp, dname, di>>
    /\ DataFrame

\* mf.Write(data) on a file opened with O_APPEND: the bytes go to the end of
\* the file; a write that fails has written n < len(data) of them and the
\* call returns its error
DataWrite(p) ==
    /\ dpc[p] = "write"
    /\ \/ /\ files' = [files EXCEPT ![dname[p]].bytes = @ \o ddata[p]]
          /\ di' = [di EXCEPT ![p] = di[p] + 1]
          /\ dpc' = [dpc EXCEPT ![p] = "loop"]
          /\ UNCHANGED derr
       \/ \E n \in 0..(Len(ddata[p]) - 1) :
             /\ files' = [files EXCEPT ![dname[p]].bytes = @ \o SubSeq(ddata[p], 1, n)]
             /\ derr' = [derr EXCEPT ![p] = WriteErr]
             /\ dpc' = [dpc EXCEPT ![p] = "done"]
             /\ UNCHANGED di
    /\ ddata' = [ddata EXCEPT ![p] = <<>>]
    /\ UNCHANGED <<now, ncalls, resp, dname, dreads>>
    /\ DataFrame

\* SubmitOffChainData returns to the host
DataReturn(p) ==
    /\ dpc[p] = "done"
    /\ dpc' = [dpc EXCEPT ![p] = "idle"]
    /\ resp' = [resp EXCEPT ![p] = NoResp]
    /\ dname' = [dname EXCEPT ![p] = NoName]
    /\ di' = [di EXCEPT ![p] = 0]
    /\ derr' = [derr EXCEPT ![p] = NoErr]
    /\ dreads' = [dreads EXCEPT ![p] = <<>>]
    /\ UNCHANGED <<now, files, ncalls, ddata>>
    /\ DataFrame

\* time passes
Tick ==
    /\ now < MaxNow
    /\ now' = now + 1
    /\ UNCHANGED <<files, ncalls, dpc, resp, dname, di, ddata, derr, dreads>>
    /\ DataFrame

\* the responses of the bounds: caller p is given the shards of its own
\* transfer, under the one message identifier
TransferOf(p) == IF p = "c1" THEN 1 ELSE 2
Responses(p) ==
    [Type : {DATA_GET_SUCCESS, DATA_GET_FAIL}, Msg : Msgs,
     Transfer : {TransferOf(p)}, ShardSize : 0..MaxShards]

NextData ==
    \/ \E p \in Callers : \E r \in Responses(p) : SubmitOffChainData(p, r)
    \/ \E p \in Callers : DataRead(p)
    \/ \E p \in Callers : DataWrite(p)
    \/ \E p \in Callers : DataReturn(p)
    \/ Tick

SpecData == Init /\ [][NextData]_vars

\* the call has opened its output file
Opened(p) == dname[p] # NoName

\* b is the front part of c
IsPrefix(b, c) == Len(b) <= Len(c) /\ SubSeq(c, 1, Len(b)) = b

\* C13: two calls for the same message identifier write to different output
\* files, and every output file holds shards of one transfer only, in their
\* order.
C13_DistinctOutputFiles ==
    /\ \A p, q \in Callers :
          (p # q /\ Opened(p) /\ Opened(q) /\ resp[p].Msg = resp[q].Msg) =>
              dname[p] # dname[q]
    /\ \A n \in FileNames :
          \E p \in Callers : IsPrefix(files[n].bytes, ConcatShards(TransferOf(p), MaxShards))

\* the shard numbers 1..n in increasing order
UpTo(n) == [k \in 1..n |-> k]

\* the call was given a success response
OnSuccess(p) == resp[p].Type = DATA_GET_SUCCESS

\* C12: a call for a success response of shard size N >= 1 that has returned
\* nil has read the shards 1..N in increasing order, and its output file
\* holds the bytes of shard 1 through shard N in that order.
C12_OutputIsConcatenation ==
    \A p \in Callers :
        (dpc[p] = "done" /\ OnSuccess(p) /\ resp[p].ShardSize >= 1 /\ derr[p] = NoErr) =>
            /\ dreads[p] = UpTo(resp[p].ShardSize)
            /\ files[dname[p]].bytes = ConcatShards(resp[p].Transfer, resp[p].ShardSize)

\* C14: a call that returns the error of reading or writing shard k has read
\* the shards 1..k and no other, and its output file is there and holds the
\* bytes of the shards 1..k-1; a call for a response whose outcome tag is not
\* success returns the error "tag:msg" and has opened no file.
C14_AbortLeavesWrittenShards ==
    \A p \in Callers :
        dpc[p] = "done" =>
            /\ (OnSuccess(p) /\ derr[p] \in {ReadErr, WriteErr}) =>
                  /\ di[p] \in 1..resp[p].ShardSize
                  /\ dreads[p] = UpTo(di[p])
                  /\ files[dname[p]].exists
                  /\ files[dname[p]].bytes = ConcatShards(resp[p].Transfer, di[p] - 1)
            /\ ~OnSuccess(p) =>
                  /\ derr[p] = <<resp[p].Type, ":", resp[p].Msg>>
                  /\ ~Opened(p)
                  /\ dreads[p] = <<>>

(***************************************************************************)
(* The finality distance of the headers listenHeader fetches.               *)
(***************************************************************************)
\* C21: a header listenHeader has fetched and is about to push lies at least
\* Threshold below the latest height its tick read; in particular a tick
\* that read a latest height below Threshold fetches nothing.
C21_FetchedBelowThreshold ==
    lpc = "send" =>
        /\ latestHeight >= Threshold
        /\ header <= latestHeight - Threshold

(***************************************************************************)
(* The batches of the whole run.                                            *)
(***************************************************************************)
\* no element of the sequence occurs twice
NoRepeat(b) == \A j, k \in 1..Len(b) : j # k => b[j] # b[k]

\* the batch postHeaders has taken and not yet emitted
TakenBatch == IF ppc = "send" THEN batch ELSE <<>>

\* every header pushed is in an emitted batch, in the batch being emitted, in
\* the buffer or in the channel, in the order of the pushes
HeadersAccounted == sent = posted \o TakenBatch \o headersSet \o recvHeaderCh

\* C22: no header is in more than one emitted batch; the emitted batches,
\* one after the other, are a front part of the sequence of the headers
\* pushed on the header-receive channel; and the step that emits a batch
\* leaves the buffer empty.
C22_BatchesArePrefixOfPushes ==
    /\ [](NoRepeat(posted) /\ IsPrefix(posted, sent) /\ HeadersAccounted)
    /\ [][PostSend => headersSet' = <<>>]_vars

\* two batches or more were emitted, and headers pushed since are on the way
C22_Witness ==
    /\ Len(metaC) >= 1
    /\ Len(posted) > Len(metaC[1].Meta)
    /\ Len(posted) >= 3
    /\ Len(sent) > Len(posted)

(***************************************************************************)
(* Concurrent waits.                                                        *)
(***************************************************************************)
\* caller p takes a step of waitForConfirmed
WaitStepOf(p) ==
    \/ WaitStart(p)
    \/ WaitCheck(p)
    \/ \E s \in {ReceiptStatusSuccessful, ReceiptStatusFailed} : WaitReceipt(p, s)

\* the callers that wait for a confirmation or have one
Waiters == {p \in Callers : waited[p] # 0}

\* C23: callers that wait at the same time wait for different hashes, the
\* receipt a caller's waitForConfirmed returned is the receipt of the hash
\* the caller sent, and a step of one caller's waitForConfirmed leaves the
\* start height, the height of the depth check and the receipt of every
\* other caller as they were.
C23_WaitsAreIndependent ==
    /\ [](\A p \in Waiters :
            /\ waited[p] = tx[p]
            /\ \A q \in Waiters \ {p} : waited[q] # waited[p]
            /\ receipt[p] # NoReceipt => receipt[p].TxHash = waited[p])
    /\ [][\A p \in Callers : WaitStepOf(p) =>
            \A q \in Callers \ {p} :
                /\ start'[q] = start[q]
                /\ seen'[q] = seen[q]
                /\ receipt'[q] = receipt[q]]_vars

\* one caller has the receipt of its hash while the other, which sent its
\* transaction earlier, is still in its wait with a start height of its own
C23_Witness ==
    /\ pc["c1"] = "done"
    /\ receipt["c1"] # NoReceipt
    /\ receipt["c1"].TxHash = tx["c1"]
    /\ pc["c2"] = "wfcLoop"
    /\ tx["c2"] # 0
    /\ tx["c2"] < tx["c1"]
    /\ start["c2"] > 0

(***************************************************************************)
(* The lock of the invoke methods.                                          *)
(***************************************************************************)
\* caller p is between c.lock.Lock() and c.lock.Unlock() of an invoke method
BetweenLockAndUnlock(p) ==
    /\ TakesLock(method[p])
    /\ pc[p] \in {"retry", "incall", "after"}

\* C24: the lock is held exactly by a caller that is between Lock and Unlock
\* of one of the four invoke methods, so it is free when there is none and
\* no caller that is in its wait or has its response holds it; a caller
\* whose ledger call failed and is attempted again keeps the lock, and as
\* long as it is in its retry loop a caller that waits in Lock stays there.
C24_LockHeldOnlyInRetryLoop ==
    /\ [](\A p \in Callers :
            /\ lock = p <=> BetweenLockAndUnlock(p)
            /\ pc[p] \in {"idle", "done", "wfcStart", "wfcLoop", "wfcReceipt"}
                   => lock # p)
    /\ [][\A p \in Callers :
            lock = p /\ pc'[p] \in {"retry", "incall"} =>
                /\ lock' = p
                /\ \A q \in Callers \ {p} : pc[q] = "lock" => pc'[q] = "lock"]_vars
    /\ [][\A p \in Callers :
            lock = p /\ pc[p] = "after" /\ AfterRetry(p) => lock' = NoCaller]_vars

\* a caller's ledger call has failed and is about to be attempted again,
\* under the lock, while the other caller waits in Lock
C24_Witness ==
    /\ lock = "c1"
    /\ pc["c1"] = "retry"
    /\ calls["c1"] >= 1
    /\ txErr["c1"] # NoErr
    /\ pc["c2"] = "lock"

(***************************************************************************)
(* The format error of SubmitIBTP.                                          *)
(***************************************************************************)
\* SubmitIBTP of caller p is about to return the multi-transaction format
\* error
ReturnsFormatErr(p) == pc[p] = "done" /\ op[p] = "SubmitIBTP" /\ err[p] = FormatErr

\* C25: a SubmitIBTP call that returns the multi-transaction format error has
\* made no ledger call, has not taken the lock, and has put no request on
\* the off-chain request channel.
C25_FormatErrorChangesNothing ==
    \A p \in Callers : ReturnsFormatErr(p) =>
        /\ used[p] = "none"
        /\ tx[p] = 0
        /\ lock # p
        /\ pushed[p] = 0

====
